---- MODULE Spec2Model ----
(***************************************************************************)
(* i.landsat8.swlst: split-window Land Surface Temperature from Landsat 8  *)
(* TIRS bands.  The model follows main() of i.landsat8.swlst.py step by    *)
(* step: the option rules of the GRASS parser, the binding of the locals,  *)
(* the region, the cloud mask, the calibration of the two thermal bands,   *)
(* the emissivity stage, the column water vapor stage, the LST stage, the  *)
(* post-production steps and the exit handler.                             *)
(*                                                                         *)
(* A raster name is a sequence of one-character strings (a name the user   *)
(* gives) possibly followed by longer tokens (the suffixes main() adds).   *)
(* The empty sequence is the empty string of an option that was not given. *)
(***************************************************************************)
EXTENDS Integers, Sequences, FiniteSets, TLC

VARIABLES
    opt,        \* the command line: options and flags as the parser sees them
    env,        \* the session: is the MTL file readable, the emissivity table
    pc,         \* position of the run in main()
    loc,        \* main()'s locals and globals
    trace,      \* the operations executed so far, in order
    rasters,    \* names of the rasters this run has created
    nodata,     \* rasters in which the tracked pixel is no-data
    mask,       \* the session's MASK: "none" or the raster it was built from
    region,     \* "original" or "temp"
    err,        \* "none" or the error that ended the run
    used,       \* what main() has taken from the split_window_lst object
    rerun       \* the class a second run on the same inputs resolves

vars ==
    <<opt, env, pc, loc, trace, rasters, nodata, mask, region, err, used,
      rerun>>

-----------------------------------------------------------------------------
(* Strings *)

NoName == <<>>

Digit == {"0", "1", "2", "3", "4", "5", "6", "7", "8", "9"}

Sign == {"+", "-"}

Given(name) == name # NoName

\* The one element of a singleton; {f(x) : x \in {e}} evaluates e once.
The(S) == CHOOSE x \in S : TRUE

\* The index after the digits that start at i.
RECURSIVE SkipDigits(_, _)
SkipDigits(s, i) ==
    IF i <= Len(s) /\ s[i] \in Digit THEN SkipDigits(s, i + 1) ELSE i

\* The index after the spaces that start at i.
RECURSIVE SkipSpaces(_, _)
SkipSpaces(s, i) ==
    IF i <= Len(s) /\ s[i] = " " THEN SkipSpaces(s, i + 1) ELSE i

\* (?:\d+(?:\.\d*)?|\.\d+) at k: the index after it, or 0 without a match.
MantissaEnd(s, k) ==
    The({IF d > k
         THEN IF d <= Len(s) /\ s[d] = "." THEN SkipDigits(s, d + 1) ELSE d
         ELSE IF k <= Len(s) /\ s[k] = "."
         THEN The({IF f > k + 1 THEN f ELSE 0 : f \in {SkipDigits(s, k + 1)}})
         ELSE 0 : d \in {SkipDigits(s, k)}})

\* (?:[eE][+-]?\d+)? at m: the index after it (m itself when it is absent).
ExponentEnd(s, m) ==
    IF m <= Len(s) /\ s[m] \in {"e", "E"}
    THEN The({The({IF q > p THEN q ELSE m : q \in {SkipDigits(s, p)}}) :
              p \in {IF m + 1 <= Len(s) /\ s[m + 1] \in Sign
                     THEN m + 2 ELSE m + 1}})
    ELSE m

\* The regular expression of extract_number_from_string tried at position i:
\*   [+-]? *(?:\d+(?:\.\d*)?|\.\d+)(?:[eE][+-]?\d+)?
\* The index after the match, or 0 when there is no match at i.
MatchNumberAt(s, i) ==
    The({IF m = 0 THEN 0 ELSE ExponentEnd(s, m) :
         m \in {MantissaEnd(s, SkipSpaces(s, IF i <= Len(s) /\ s[i] \in Sign
                                             THEN i + 1 ELSE i))}})

\* re.findall scans left to right over non-overlapping matches; [-1] is the
\* last one.  NoName when no number starts at pos or later.
RECURSIVE LastNumberFrom(_, _)
LastNumberFrom(s, pos) ==
    IF pos > Len(s) THEN NoName
    ELSE The({IF e = 0 THEN LastNumberFrom(s, pos + 1)
              ELSE The({IF rest = NoName THEN SubSeq(s, pos, e - 1) ELSE rest :
                        rest \in {LastNumberFrom(s, e)}}) :
              e \in {MatchNumberAt(s, pos)}})

\* Without a number findall returns [] and [-1] raises IndexError.
HasNumber(string) == LastNumberFrom(string, 1) # NoName

\* extract_number_from_string: the last number in the string, as a string.
extract_number_from_string(string) == LastNumberFrom(string, 1)

-----------------------------------------------------------------------------
(* The command line *)

\* Names the scenarios give to the options (any raster name would do).
B10 == <<"B", "1", "0">>
B11 == <<"B", "1", "1">>
B11inMapset == <<"B", "1", "1", "@", "m", "1", "0">>
B11v2 == <<"B", "1", "1", "_", "2">>
TIRS == <<"T", "I", "R", "S">>
T10 == <<"T", "1", "0">>
T11 == <<"T", "1", "1">>
BandPrefix == <<"B">>
MTL == <<"M", "T", "L">>
QA == <<"Q", "A">>
Clouds == <<"C", "L", "D">>
AvgLSE == <<"A", "V", "G">>
DeltaLSE == <<"D", "L", "T">>
FromGLC == <<"G", "L", "C">>
LstOut == <<"l", "s", "t">>
CwvOut == <<"c", "w", "v">>

\* The values the parser admits for emissivity_class (options: line).
EmissivityClassOptions ==
    {"Cropland", "Forest", "Grasslands", "Shrublands", "Wetlands",
     "Waterbodies", "Tundra", "Impervious", "Barren", "Snow", "Random"}

\* The real land cover classes of the emissivity look-up table.
LandCoverClasses == EmissivityClassOptions \ {"Random"}

\* An option is present when its answer is not the empty string.
Present(o, key) ==
    IF key = "emissivity_class" THEN o[key] # "" ELSE o[key] # NoName

\* GRASS option rules.
requires_all(o, first, others) ==
    Present(o, first) => \A k \in others : Present(o, k)

requires(o, first, others) ==
    Present(o, first) => \E k \in others : Present(o, k)

exclusive(o, keys) ==
    \A k1 \in keys : \A k2 \in keys :
        (k1 # k2) => ~(Present(o, k1) /\ Present(o, k2))

excludes(o, first, others) ==
    Present(o, first) => \A k \in others : ~Present(o, k)

required(o, keys) == \E k \in keys : Present(o, k)

\* #%rules of b10, b11, t10, t11, mtl.
RulesThermal(o) ==
    /\ requires_all(o, "b10", {"mtl"})
    /\ requires_all(o, "b11", {"mtl"})
    /\ requires(o, "b10", {"b11", "t11"})
    /\ requires(o, "b11", {"b10", "t10"})
    /\ requires(o, "t10", {"t11", "b11"})
    /\ requires(o, "t11", {"t10", "b10"})
    /\ exclusive(o, {"b10", "t10"})
    /\ exclusive(o, {"b11", "t11"})

\* #%rules of prefix, qab, clouds.
RulesMask(o) ==
    /\ excludes(o, "prefix", {"b10", "b11", "qab"})
    /\ exclusive(o, {"qab", "clouds"})

\* A variant of RulesEmissivity without the exclusive rule.
RulesEmissivityNotExclusive(o) ==
    required(o, {"landcover", "emissivity_class"})

\* #%rules of landcover, emissivity_class.
RulesEmissivity(o) ==
    /\ required(o, {"landcover", "emissivity_class"})
    /\ exclusive(o, {"landcover", "emissivity_class"})

\* grass.parser(): the answers pass the option rules and the options: lists.
\* lst and window are required and have default answers.
ParserAccepts(o) ==
    /\ RulesThermal(o)
    /\ RulesMask(o)
    /\ RulesEmissivity(o)
    /\ (Present(o, "emissivity_class") =>
            o.emissivity_class \in EmissivityClassOptions)
    /\ Present(o, "lst")

-----------------------------------------------------------------------------
(* Scenarios: the command lines and sessions the runs start from *)

MaxWindow == 8

Windows == 0 .. MaxWindow

\* A usual invocation; the families below vary some of its answers.
Usual ==
    [prefix |-> NoName, b10 |-> B10, b11 |-> B11, t10 |-> NoName,
     t11 |-> NoName, mtl |-> MTL, qab |-> QA, clouds |-> NoName,
     average_emissivity |-> NoName, delta_emissivity |-> NoName,
     landcover |-> FromGLC, emissivity_class |-> "", lst |-> LstOut,
     window |-> 3, cwv |-> NoName, i |-> FALSE, k |-> FALSE, c |-> FALSE]

\* The session: whether the MTL file can be read and parsed, the classes the
\* emissivity table holds, and what the tracked pixel is in the input rasters:
\* flagged by the mask source (cloudy), with a no-data neighbour in its window;
\* whether the input rasters share one extent and resolution (aligned), and
\* the names on the command line that are no raster of the session (missing).
UsualSession ==
    [mtl_ok |-> TRUE, table |-> LandCoverClasses, cloudy |-> FALSE,
     neighbour |-> FALSE, nodata_in |-> {}, aligned |-> TRUE, missing |-> {}]

Sessions(o) ==
    {[UsualSession EXCEPT !.mtl_ok = m, !.table = t] :
        m \in (IF Given(o.mtl) THEN BOOLEAN ELSE {TRUE}),
        t \in (IF o.emissivity_class = "Tundra"
               THEN {LandCoverClasses, LandCoverClasses \ {"Tundra"}}
               ELSE {LandCoverClasses})}

\* The rasters a command line names as inputs.
InputRasters(o) ==
    ({o[key] : key \in {"b10", "b11", "t10", "t11", "average_emissivity",
                        "delta_emissivity", "landcover"}} \ {NoName})
    \cup (IF Given(o.prefix)
          THEN {o.prefix \o <<"1", "0">>, o.prefix \o <<"1", "1">>}
          ELSE {})

PixelSessions(o) ==
    {[UsualSession EXCEPT !.cloudy = cl, !.neighbour = nb, !.nodata_in = nd] :
        cl \in BOOLEAN, nb \in BOOLEAN, nd \in SUBSET InputRasters(o)}

\* The thermal inputs of the runs that track a pixel: prefix, b10, b11, t10,
\* t11, mtl, qab.
PixelThermalForms ==
    {<<NoName, B10, B11, NoName, NoName, MTL, QA>>,
     <<NoName, NoName, NoName, T10, T11, NoName, QA>>,
     <<NoName, B10, NoName, NoName, T11, MTL, QA>>,
     <<BandPrefix, NoName, NoName, T10, T11, MTL, NoName>>}

\* The emissivity modes of the runs that track a pixel.
PixelEmissivityForms == {<<FromGLC, "">>, <<NoName, "Cropland">>}

-----------------------------------------------------------------------------
(* The state of a run *)

\* A local that no assignment has bound yet.
Unbound == <<"<unbound>">>

\* Python's False where the code assigns or compares it.
False == "<False>"

NoMask == NoName

\* tmp = "tmp." + basename(grass.tempfile()): the tempfile of process pid.
Tmp == <<"tmp.", "pid", ".0">>

Falsy(v) == v = NoName

Truthy(v) == ~Falsy(v)

UnboundLocals ==
    [mtl_file |-> Unbound, b10 |-> Unbound, b11 |-> Unbound,
     t10 |-> Unbound, t11 |-> Unbound, qab |-> Unbound,
     cloud_map |-> Unbound, tmp_avg_lse |-> Unbound,
     tmp_delta_lse |-> Unbound, tmp_cwv |-> Unbound, tmp_lst |-> Unbound,
     landcover_map |-> Unbound, landcover_class |-> "<unbound>"]

\* One executed operation: the command, the stage of main() that ran it, the
\* raster it writes (NoName for none), the rasters it reads, and whether it
\* succeeded.
Event(op, stage, out, reads, ok) ==
    [op |-> op, stage |-> stage, out |-> out, reads |-> reads, ok |-> ok]

\* Nothing has been read from the split_window_lst object yet.
NothingUsed ==
    [reported |-> "<unbound>", values |-> "<unbound>",
     expression |-> "<unbound>"]

StartFrom(o, e) ==
    /\ opt = o
    /\ env = e
    /\ pc = "parser"
    /\ loc = UnboundLocals
    /\ trace = <<>>
    /\ rasters = {}
    /\ nodata = e.nodata_in
    /\ mask = NoMask
    /\ region = "original"
    /\ err = "none"
    /\ used = NothingUsed
    /\ rerun = "<unbound>"

\* Every form of the thermal inputs and of the mask source, in both
\* emissivity modes, with and without the emissivity pair.
InputForms ==
    \E p \in {NoName, BandPrefix}, a \in {NoName, B10, TIRS},
       b \in {NoName, B11, B11inMapset, B11v2},
       t \in {NoName, T10}, u \in {NoName, T11}, m \in {NoName, MTL},
       q \in {NoName, QA}, cl \in {NoName, Clouds},
       lc \in {NoName, FromGLC}, ec \in {"", "Cropland"},
       av \in {NoName, AvgLSE}, de \in {NoName, DeltaLSE} :
        LET o == [Usual EXCEPT !.prefix = p, !.b10 = a, !.b11 = b, !.t10 = t,
                               !.t11 = u, !.mtl = m, !.qab = q, !.clouds = cl,
                               !.landcover = lc, !.emissivity_class = ec,
                               !.average_emissivity = av,
                               !.delta_emissivity = de]
        IN  \E e \in Sessions(o) : StartFrom(o, e)

\* Every answer of emissivity_class the model distinguishes: a class of the
\* table, a class the table may lack, Random, and a string outside the list.
EmissivityForms ==
    \E lc \in {NoName, FromGLC},
       ec \in {"", "Cropland", "Tundra", "Random", "Urban"},
       av \in {NoName, AvgLSE}, de \in {NoName, DeltaLSE}, fi \in BOOLEAN :
        LET o == [Usual EXCEPT !.landcover = lc, !.emissivity_class = ec,
                               !.average_emissivity = av,
                               !.delta_emissivity = de, !.i = fi]
        IN  \E e \in Sessions(o) : StartFrom(o, e)

\* Every window size, flag and optional output.
WindowForms ==
    \E w \in Windows, cw \in {NoName, CwvOut},
       fi \in BOOLEAN, fk \in BOOLEAN, fc \in BOOLEAN :
        LET o == [Usual EXCEPT !.window = w, !.cwv = cw, !.i = fi, !.k = fk,
                               !.c = fc]
        IN  \E e \in Sessions(o) : StartFrom(o, e)

\* Runs whose tracked pixel is no-data in some of the input rasters.
PixelForms ==
    \E th \in PixelThermalForms, em \in PixelEmissivityForms,
       av \in {NoName, AvgLSE}, de \in {NoName, DeltaLSE} :
        LET o == [Usual EXCEPT !.prefix = th[1], !.b10 = th[2], !.b11 = th[3],
                               !.t10 = th[4], !.t11 = th[5], !.mtl = th[6],
                               !.qab = th[7], !.landcover = em[1],
                               !.emissivity_class = em[2],
                               !.average_emissivity = av,
                               !.delta_emissivity = de]
        IN  \E e \in PixelSessions(o) : StartFrom(o, e)

\* Sessions whose input rasters differ in extent or resolution, or lack a
\* raster the command line names.
SessionForms ==
    \E fk \in BOOLEAN, cw \in {NoName, CwvOut}, av \in {NoName, AvgLSE},
       al \in BOOLEAN, ms \in SUBSET {B11, AvgLSE, FromGLC} :
        LET o == [Usual EXCEPT !.k = fk, !.cwv = cw,
                               !.average_emissivity = av]
        IN  StartFrom(o, [UsualSession EXCEPT
                              !.aligned = al,
                              !.missing = ms \cap InputRasters(o)])

Init ==
    InputForms \/ EmissivityForms \/ WindowForms \/ PixelForms
    \/ SessionForms

\* grass.parser() at module level: a command line that breaks a rule ends the
\* program before main() and before the exit handler is registered.
Parser ==
    /\ pc = "parser"
    /\ IF ParserAccepts(opt)
       THEN pc' = "options" /\ err' = err
       ELSE pc' = "done" /\ err' = "ParserError"
    /\ UNCHANGED <<opt, env, used, rerun, loc, trace, rasters, nodata, mask,
                   region>>

\* main(): temporary names and user input.
ReadOptions ==
    /\ pc = "options"
    /\ loc' = [loc EXCEPT
           !.tmp_avg_lse = Tmp \o <<".avg_lse">>,
           !.tmp_delta_lse = Tmp \o <<".delta_lse">>,
           !.tmp_cwv = Tmp \o <<".cwv">>,
           !.tmp_lst = Tmp \o <<".lst">>,
           !.mtl_file = opt.mtl,
           !.b10 = IF Falsy(opt.prefix) THEN opt.b10
                   ELSE opt.prefix \o <<"1", "0">>,
           !.b11 = IF Falsy(opt.prefix) THEN opt.b11
                   ELSE opt.prefix \o <<"1", "1">>,
           !.t10 = IF Falsy(opt.prefix) THEN opt.t10 ELSE Unbound,
           !.t11 = IF Falsy(opt.prefix) THEN opt.t11 ELSE Unbound,
           !.qab = IF Truthy(opt.clouds) THEN NoName
                   ELSE IF Falsy(opt.prefix) THEN opt.qab
                   ELSE opt.prefix \o <<"Q", "A">>,
           !.cloud_map = opt.clouds,
           !.landcover_map = opt.landcover]
    /\ pc' = "region"
    /\ UNCHANGED <<opt, env, used, rerun, trace, rasters, nodata, mask,
                   region, err>>

-----------------------------------------------------------------------------
(* The raster engine, as main() uses it *)

\* The rasters the session holds before the run, as the command line names them.
SuppliedRasters(o) ==
    InputRasters(o)
    \cup ({o.qab, o.clouds} \ {NoName})
    \cup (IF Given(o.prefix) THEN {o.prefix \o <<"Q", "A">>} ELSE {})

Exists(name) == name \in (SuppliedRasters(opt) \ env.missing) \cup rasters

\* While a MASK is installed every read of a masked cell yields no-data.
Masked == mask # NoMask /\ env.cloudy

\* r.mapcalc "out = expression": the tracked pixel of out is no-data when it is
\* masked or no-data in a raster the expression reads.
MapcalcNoData(nd, out, reads) ==
    IF Masked \/ (reads \cap nd) # {} THEN nd \cup {out} ELSE nd \ {out}

\* r.mapcalc fails on an expression that names a raster that does not exist.
MapcalcOk(reads) == \A r \in reads : Exists(r)

-----------------------------------------------------------------------------
(* Pre-production: region and mask *)

\* main(): "Set Region".
SetRegion ==
    /\ pc = "region"
    /\ IF ~opt.k
       THEN /\ region' = "temp"
            /\ trace' =
                 IF Truthy(loc.b10)
                 THEN Append(trace, Event("g.region", "region", NoName,
                                          {loc.b10}, TRUE))
                 ELSE IF Truthy(loc.t10)
                 THEN Append(trace, Event("g.region", "region", NoName,
                                          {loc.t10}, TRUE))
                 ELSE trace
       ELSE UNCHANGED <<region, trace>>
    /\ pc' = "mask"
    /\ UNCHANGED <<opt, env, used, rerun, loc, rasters, nodata, mask, err>>

tmp_cloudmask == Tmp \o <<".cloudmask">>

\* main(): "1. Mask clouds", with mask_clouds(qa_band, qa_pixel).
MaskClouds ==
    /\ pc = "mask"
    /\ IF Truthy(loc.cloud_map)
       THEN /\ trace' = Append(trace, Event("r.mask", "mask", NoName,
                                            {loc.cloud_map}, TRUE))
            /\ mask' = loc.cloud_map
            /\ pc' = "tirs10"
            /\ UNCHANGED <<rasters, nodata, err>>
       ELSE IF MapcalcOk({loc.qab})
       THEN /\ trace' = trace \o
                 <<Event("r.mapcalc", "mask", tmp_cloudmask, {loc.qab}, TRUE),
                   Event("r.mask", "mask", NoName, {tmp_cloudmask}, TRUE)>>
            /\ rasters' = rasters \cup {tmp_cloudmask}
            /\ nodata' = IF env.cloudy THEN nodata \ {tmp_cloudmask}
                         ELSE nodata \cup {tmp_cloudmask}
            /\ mask' = tmp_cloudmask
            /\ pc' = "tirs10"
            /\ err' = err
       ELSE /\ trace' = Append(trace, Event("r.mapcalc", "mask", tmp_cloudmask,
                                            {loc.qab}, FALSE))
            /\ err' = "MapcalcError"
            /\ pc' = "exit"
            /\ UNCHANGED <<rasters, nodata, mask>>
    /\ UNCHANGED <<opt, env, used, rerun, loc, region>>

-----------------------------------------------------------------------------
(* 2. TIRS > Brightness Temperatures *)

\* The bands whose calibration constants the metadata holds.
ThermalBands == {<<"1", "0">>, <<"1", "1">>}

\* Landsat8_MTL(mtl_file): the file is read and parsed.
MetadataLoads == env.mtl_ok

\* landsat8.toar_radiance(band_number), landsat8.radiance_to_temperature(...).
HasConstants(band_number) == band_number \in ThermalBands

tmp_radiance(band_number) == Tmp \o <<".radiance", ".">> \o band_number

tmp_brightness_temperature(band_number) ==
    Tmp \o <<".brightness_temperature", ".">> \o band_number

\* tirs_to_at_satellite_temperature(tirs_1x, mtl_file): what it executes, what
\* it creates, the error that ends it and the name it returns.
TirsWithBand(tirs_1x, mtl_file, band_number) ==
    LET rad == tmp_radiance(band_number)
        bt == tmp_brightness_temperature(band_number)
        load(ok) == Event("Landsat8_MTL", "calibrate", NoName, {mtl_file}, ok)
    IN  IF band_number = NoName
        THEN [err |-> "IndexError", events |-> <<>>, made |-> {},
              nodata |-> nodata, result |-> Unbound]
        ELSE IF ~MetadataLoads
        THEN [err |-> "MetadataError", events |-> <<load(FALSE)>>,
              made |-> {}, nodata |-> nodata, result |-> Unbound]
        ELSE IF ~HasConstants(band_number)
        THEN [err |-> "MetadataError", events |-> <<load(TRUE)>>,
              made |-> {}, nodata |-> nodata, result |-> Unbound]
        ELSE IF ~MapcalcOk({tirs_1x})
        THEN [err |-> "MapcalcError",
              events |-> <<load(TRUE),
                           Event("r.mapcalc", "calibrate", rad, {tirs_1x},
                                 FALSE)>>,
              made |-> {}, nodata |-> nodata, result |-> Unbound]
        ELSE [err |-> "none",
              events |-> <<load(TRUE),
                           Event("r.mapcalc", "calibrate", rad, {tirs_1x},
                                 TRUE),
                           Event("r.mapcalc", "calibrate", bt, {rad}, TRUE)>>,
              made |-> {rad, bt},
              nodata |-> MapcalcNoData(MapcalcNoData(nodata, rad, {tirs_1x}),
                                       bt, {rad}),
              result |-> bt]

tirs_to_at_satellite_temperature(tirs_1x, mtl_file) ==
    The({TirsWithBand(tirs_1x, mtl_file, band_number) :
         band_number \in {extract_number_from_string(tirs_1x)}})

\* main(): "if mtl_file: if b10: t10 = tirs_to_at_satellite_temperature(...)".
Calibrate10 ==
    /\ pc = "tirs10"
    /\ IF Truthy(loc.mtl_file) /\ Truthy(loc.b10)
       THEN \E r \in {tirs_to_at_satellite_temperature(loc.b10, loc.mtl_file)} :
                /\ trace' = trace \o r.events
                /\ rasters' = rasters \cup r.made
                /\ nodata' = r.nodata
                /\ err' = r.err
                /\ IF r.err = "none"
                   THEN loc' = [loc EXCEPT !.t10 = r.result] /\ pc' = "tirs11"
                   ELSE loc' = loc /\ pc' = "exit"
       ELSE /\ pc' = "tirs11"
            /\ UNCHANGED <<loc, trace, rasters, nodata, err>>
    /\ UNCHANGED <<opt, env, used, rerun, mask, region>>

\* main(): "if mtl_file: if b11: t11 = tirs_to_at_satellite_temperature(...)".
Calibrate11 ==
    /\ pc = "tirs11"
    /\ IF Truthy(loc.mtl_file) /\ Truthy(loc.b11)
       THEN \E r \in {tirs_to_at_satellite_temperature(loc.b11, loc.mtl_file)} :
                /\ trace' = trace \o r.events
                /\ rasters' = rasters \cup r.made
                /\ nodata' = r.nodata
                /\ err' = r.err
                /\ IF r.err = "none"
                   THEN loc' = [loc EXCEPT !.t11 = r.result] /\ pc' = "swlst"
                   ELSE loc' = loc /\ pc' = "exit"
       ELSE /\ pc' = "swlst"
            /\ UNCHANGED <<loc, trace, rasters, nodata, err>>
    /\ UNCHANGED <<opt, env, used, rerun, mask, region>>

-----------------------------------------------------------------------------
(* 3. Land Surface Emissivities *)

\* SplitWindowLST(emissivity_class).landcover_class: the class itself when the
\* table holds it, one class of the table for Random, otherwise False.
LandcoverClassChoices(emissivity_class) ==
    IF emissivity_class = "Random" THEN env.table
    ELSE IF emissivity_class \in env.table THEN {emissivity_class}
    ELSE {False}

\* A variant of InitSplitWindowLST that asks for the Random class whatever
\* emissivity_class is.
InitSplitWindowLSTOfRandom ==
    /\ pc = "swlst"
    /\ \E c \in LandcoverClassChoices("Random") :
           loc' = [loc EXCEPT !.landcover_class = c]
    /\ rerun' \in LandcoverClassChoices("Random")
    /\ pc' = "emissivity"
    /\ UNCHANGED <<opt, env, used, trace, rasters, nodata, mask, region,
                   err>>

\* main(): "Initialise a SplitWindowLST object".
InitSplitWindowLST ==
    /\ pc = "swlst"
    /\ \E c \in LandcoverClassChoices(opt.emissivity_class) :
           loc' = [loc EXCEPT !.landcover_class = c]
    /\ rerun' \in LandcoverClassChoices(opt.emissivity_class)
    /\ pc' = "emissivity"
    /\ UNCHANGED <<opt, env, used, trace, rasters, nodata, mask, region,
                   err>>

\* The branch main() takes at "3. Land Surface Emissivities".
EmissivityBranch ==
    IF opt.emissivity_class # "" THEN "class"
    ELSE IF Truthy(loc.landcover_map) THEN "map"
    ELSE "none"

\* determine_average_emissivity / determine_delta_emissivity: one look-up of
\* the land cover map, written to outname.
LookUp(outname) ==
    Event("r.mapcalc", "emissivity", outname, {loc.landcover_map},
          MapcalcOk({loc.landcover_map}))

\* split_window_lst.landcover_class, as the message to the user names it.
ReportedClass == loc.landcover_class

\* split_window_lst.emissivity_t10, split_window_lst.emissivity_t11: the
\* class whose average emissivities the message prints.
EmissivityValuesClass == loc.landcover_class

\* main(): the "use given fixed class?" branch.
EmissivityOfClass ==
    /\ IF opt.emissivity_class = "Random" /\ loc.landcover_class = False
       THEN \* str + bool
            /\ trace' = Append(trace, Event("g.warning", "emissivity", NoName,
                                            {}, TRUE))
            /\ err' = "TypeError"
            /\ pc' = "exit"
            /\ used' = used
       ELSE /\ trace' = trace
                 \o (IF loc.landcover_class = False
                     THEN <<Event("g.warning", "emissivity", NoName, {}, TRUE)>>
                     ELSE <<>>)
                 \o <<Event("g.message", "emissivity", NoName, {}, TRUE)>>
            /\ used' = [used EXCEPT
                   !.reported = ReportedClass,
                   !.values = IF opt.i THEN EmissivityValuesClass ELSE @]
            /\ err' = err
            /\ pc' = "cwv"
    /\ UNCHANGED <<opt, env, rerun, loc, rasters, nodata, mask, region>>

\* A variant of AvgLseMap that keeps the temporary name of the look-up.
AvgLseMapOfLookUp == loc.tmp_avg_lse

\* main(): "if average_emissivity_map: tmp_avg_lse = average_emissivity_map".
AvgLseMap ==
    IF Truthy(opt.average_emissivity) THEN opt.average_emissivity
    ELSE loc.tmp_avg_lse

\* main(): "if delta_emissivity_map: tmp_delta_lse = delta_emissivity_map".
DeltaLseMap ==
    IF Truthy(opt.delta_emissivity) THEN opt.delta_emissivity
    ELSE loc.tmp_delta_lse

\* main(): the "use the FROM-GLC map" branch.
EmissivityOfMap ==
    /\ LET lookups == (IF Falsy(opt.average_emissivity)
                       THEN <<LookUp(loc.tmp_avg_lse)>> ELSE <<>>)
                      \o (IF Falsy(opt.delta_emissivity)
                          THEN <<LookUp(loc.tmp_delta_lse)>> ELSE <<>>)
           made == {lookups[n].out : n \in 1 .. Len(lookups)}
           nd1 == IF Falsy(opt.average_emissivity)
                  THEN MapcalcNoData(nodata, loc.tmp_avg_lse,
                                     {loc.landcover_map})
                  ELSE nodata
           nd2 == IF Falsy(opt.delta_emissivity)
                  THEN MapcalcNoData(nd1, loc.tmp_delta_lse,
                                     {loc.landcover_map})
                  ELSE nd1
       IN  IF lookups # <<>> /\ ~MapcalcOk({loc.landcover_map})
           THEN /\ trace' = Append(trace, lookups[1])
                /\ err' = "MapcalcError"
                /\ pc' = "exit"
                /\ UNCHANGED <<loc, rasters, nodata>>
           ELSE /\ trace' = trace \o lookups
                /\ loc' = [loc EXCEPT !.tmp_avg_lse = AvgLseMap,
                                      !.tmp_delta_lse = DeltaLseMap]
                /\ rasters' = rasters \cup made
                /\ nodata' = nd2
                /\ err' = err
                /\ pc' = "cwv"
    /\ UNCHANGED <<opt, env, used, rerun, mask, region>>

\* main(): "3. Land Surface Emissivities"; with neither emissivity_class nor
\* landcover the stage does nothing.
Emissivity ==
    /\ pc = "emissivity"
    /\ IF EmissivityBranch = "class" THEN EmissivityOfClass
       ELSE IF EmissivityBranch = "map" THEN EmissivityOfMap
       ELSE /\ pc' = "cwv"
            /\ UNCHANGED <<opt, env, used, rerun, loc, trace, rasters, nodata,
                           mask, region, err>>

-----------------------------------------------------------------------------
(* 4. Column Water Vapor *)

\* The window sizes Column_Water_Vapor accepts.
WindowSizes == {3, 5, 7}

\* Column_Water_Vapor(window_size, ti, tj) raises on any other size.
ColumnWaterVaporAccepts(window_size) == window_size \in WindowSizes

\* g.copy raster=(from, to): the copy holds what the source holds.
CopyNoData(nd, from, to) ==
    IF from \in nd THEN nd \cup {to} ELSE nd \ {to}

\* A variant of SaveCwv that saves the map whether or not a name is given.
SaveCwvAlways == TRUE

\* estimate_cwv_big_expression: "save Column Water Vapor map?  if cwv_output:".
SaveCwv == Truthy(opt.cwv)

\* main(): "4. Modified Split-Window Variance-Covariance Matrix > Column Water
\* Vapor", with estimate_cwv_big_expression(outname, t10, t11, cwv_expression).
ColumnWaterVapor ==
    /\ pc = "cwv"
    /\ LET note == IF opt.i /\ opt.window # 3
                   THEN <<Event("g.message", "cwv", NoName, {}, TRUE)>>
                   ELSE <<>>
           reads == {loc.t10, loc.t11}
           calc(ok) == Event("r.mapcalc", "cwv", loc.tmp_cwv, reads, ok)
           nd1 == MapcalcNoData(nodata, loc.tmp_cwv, reads)
           nd2 == IF env.neighbour THEN nd1 \cup {loc.tmp_cwv} ELSE nd1
       IN  IF Unbound \in reads
           THEN /\ trace' = trace \o note
                /\ err' = "UnboundLocalError"
                /\ pc' = "exit"
                /\ UNCHANGED <<rasters, nodata>>
           ELSE IF ~ColumnWaterVaporAccepts(opt.window)
           THEN /\ trace' = trace \o note
                /\ err' = "ConfigurationError"
                /\ pc' = "exit"
                /\ UNCHANGED <<rasters, nodata>>
           ELSE IF ~MapcalcOk(reads)
           THEN /\ trace' = trace \o note \o <<calc(FALSE)>>
                /\ err' = "MapcalcError"
                /\ pc' = "exit"
                /\ UNCHANGED <<rasters, nodata>>
           ELSE IF SaveCwv
           THEN /\ trace' = trace \o note \o
                     <<calc(TRUE),
                       Event("r.support", "cwv", NoName, {loc.tmp_cwv}, TRUE),
                       Event("g.copy", "cwv", opt.cwv, {loc.tmp_cwv}, TRUE)>>
                /\ rasters' = rasters \cup {loc.tmp_cwv, opt.cwv}
                /\ nodata' = CopyNoData(nd2, loc.tmp_cwv, opt.cwv)
                /\ err' = err
                /\ pc' = "lst"
           ELSE /\ trace' = trace \o note \o <<calc(TRUE)>>
                /\ rasters' = rasters \cup {loc.tmp_cwv}
                /\ nodata' = nd2
                /\ err' = err
                /\ pc' = "lst"
    /\ UNCHANGED <<opt, env, used, rerun, loc, mask, region>>

-----------------------------------------------------------------------------
(* 5. Land Surface Temperature *)

\* The branch estimate_lst takes when it replaces the dummy strings.
LstBranch ==
    IF Truthy(loc.landcover_map) THEN "map"
    ELSE IF opt.emissivity_class # "" THEN "class"
    ELSE "none"

\* A variant of LstReads that takes the class branch in both modes.
LstReadsOfClassAlways(avg_lse_map, delta_lse_map, cwv_map, t10, t11) ==
    {cwv_map, t10, t11}

\* estimate_lst: the rasters replace_dummies puts into the expression.
LstReads(avg_lse_map, delta_lse_map, cwv_map, t10, t11) ==
    IF LstBranch = "map"
    THEN {avg_lse_map, delta_lse_map, cwv_map, t10, t11}
    ELSE {cwv_map, t10, t11}

\* A variant of SwLstMapcalcClass: the expression of a second selection.
SwLstMapcalcOfNewSelection ==
    IF opt.emissivity_class = "Random"
    THEN CHOOSE c \in env.table : c # loc.landcover_class
    ELSE loc.landcover_class

\* split_window_lst.sw_lst_mapcalc: the class whose emissivities the
\* expression handed to estimate_lst holds.
SwLstMapcalcClass == loc.landcover_class

\* main(): "5. Estimate Land Surface Temperature", with estimate_lst.
LandSurfaceTemperature ==
    /\ pc = "lst"
    /\ LET reads == LstReads(loc.tmp_avg_lse, loc.tmp_delta_lse, loc.tmp_cwv,
                             loc.t10, loc.t11)
           calc(ok) == Event("r.mapcalc", "lst", loc.tmp_lst, reads, ok)
       IN  IF LstBranch = "none"
           THEN /\ trace' = Append(trace, Event("g.message", "lst", NoName,
                                                {}, TRUE))
                /\ err' = "UnboundLocalError"
                /\ pc' = "exit"
                /\ UNCHANGED <<rasters, nodata, used>>
           ELSE IF ~MapcalcOk(reads)
           THEN /\ trace' = Append(trace, calc(FALSE))
                /\ err' = "MapcalcError"
                /\ pc' = "exit"
                /\ UNCHANGED <<rasters, nodata, used>>
           ELSE /\ trace' = Append(trace, calc(TRUE))
                /\ rasters' = rasters \cup {loc.tmp_lst}
                /\ nodata' = MapcalcNoData(nodata, loc.tmp_lst, reads)
                /\ used' = [used EXCEPT !.expression = SwLstMapcalcClass]
                /\ err' = err
                /\ pc' = "post"
    /\ UNCHANGED <<opt, env, rerun, loc, mask, region>>

-----------------------------------------------------------------------------
(* Post-production and exit *)

\* A variant of PostProductionCommands that renames the LST product first.
PostProductionCommandsRenameFirst ==
    <<Event("g.rename", "post", opt.lst, {loc.tmp_lst}, TRUE),
      Event("r.mask -r", "post", NoName, {}, TRUE),
      Event("r.support", "post", NoName, {opt.lst}, TRUE)>>

\* main(): remove MASK, history entry, color table, (re)name the LST product.
PostProductionCommands ==
    <<Event("r.mask -r", "post", NoName, {}, TRUE),
      Event("r.support", "post", NoName, {loc.tmp_lst}, TRUE)>>
    \o (IF opt.c
        THEN <<Event("r.colors", "post", NoName, {loc.tmp_lst}, TRUE)>>
        ELSE <<>>)
    \o <<Event("g.rename", "post", opt.lst, {loc.tmp_lst}, TRUE)>>

\* main(): "Post-production actions".
PostProduction ==
    /\ pc = "post"
    /\ trace' = trace \o PostProductionCommands
    /\ mask' = NoMask
    /\ rasters' = (rasters \ {loc.tmp_lst}) \cup {opt.lst}
    /\ nodata' = CopyNoData(nodata, loc.tmp_lst, opt.lst) \ {loc.tmp_lst}
    /\ region' = IF ~opt.k THEN "original" ELSE region
    /\ pc' = "exit"
    /\ UNCHANGED <<opt, env, used, rerun, loc, err>>

\* A variant of MatchesCleanupPattern for a pattern without the wildcard.
MatchesCleanupPatternExactly(name) == name = <<"tmp.", "pid">>

\* g.remove pattern='tmp.{pid}*'.
MatchesCleanupPattern(name) ==
    Len(name) >= 2 /\ name[1] = "tmp." /\ name[2] = "pid"

\* cleanup(), registered with atexit: it runs however main() ends.  The
\* temporary region of grass.use_temp_region() ends with the process.
Cleanup ==
    /\ pc = "exit"
    /\ trace' = Append(trace, Event("g.remove", "exit", NoName, {}, TRUE))
    /\ rasters' = {r \in rasters : ~MatchesCleanupPattern(r)}
    /\ nodata' = {r \in nodata : ~MatchesCleanupPattern(r)}
    /\ region' = "original"
    /\ pc' = "done"
    /\ UNCHANGED <<opt, env, used, rerun, loc, mask, err>>

Next ==
    \/ Parser
    \/ ReadOptions
    \/ SetRegion
    \/ MaskClouds
    \/ Calibrate10
    \/ Calibrate11
    \/ InitSplitWindowLST
    \/ Emissivity
    \/ ColumnWaterVapor
    \/ LandSurfaceTemperature
    \/ PostProduction
    \/ Cleanup

Spec == Init /\ [][Next]_vars

-----------------------------------------------------------------------------
(* What the claims speak of *)

Events == {trace[n] : n \in 1 .. Len(trace)}

\* The operations that read or write raster cells.
RasterWork == {"r.mapcalc", "r.mask", "g.copy", "g.rename"}

PipelineStages == {"mask", "calibrate", "emissivity", "cwv", "lst"}

ParserRejected == pc = "done" /\ err = "ParserError"

\* The raw band of a channel, as the command line names it.
RawBand(o, ch) ==
    IF Given(o.prefix) THEN o.prefix \o ch
    ELSE IF ch = <<"1", "0">> THEN o.b10 ELSE o.b11

\* The brightness temperature map the command line gives for a channel.
GivenTemperature(o, ch) == IF ch = <<"1", "0">> THEN o.t10 ELSE o.t11

Channels == {<<"1", "0">>, <<"1", "1">>}

\* C1: a command line that gives a channel both as a raw band (b10/b11 or the
\* prefix) and as a brightness temperature map (t10/t11) is rejected by the
\* parser and no operation of the run is executed.
C1_BothFormsRejected ==
    \A ch \in Channels :
        (Given(RawBand(opt, ch)) /\ Given(GivenTemperature(opt, ch)))
            => (pc = "parser" \/ ParserRejected) /\ trace = <<>>

\* C2: when t10 (t11) is given, no calibration step reads the raw band of that
\* channel, and every CWV and LST expression reads the given map.
C2_GivenTemperatureBypassesCalibrator ==
    \A ch \in Channels :
        Given(GivenTemperature(opt, ch)) =>
            \A e \in Events :
                /\ e.stage = "calibrate" => RawBand(opt, ch) \notin e.reads
                /\ (e.stage \in {"cwv", "lst"} /\ e.op = "r.mapcalc")
                       => GivenTemperature(opt, ch) \in e.reads

\* C3: from the emissivity stage on, exactly one of emissivity_class and
\* landcover is given, main() and estimate_lst take the branch of that same
\* mode, and the LST expression reads the emissivity maps exactly in map mode.
C3_ExactlyOneEmissivityMode ==
    /\ pc \in {"emissivity", "cwv", "lst", "post"} =>
           /\ Present(opt, "emissivity_class") # Present(opt, "landcover")
           /\ EmissivityBranch \in {"class", "map"}
           /\ LstBranch = EmissivityBranch
    /\ \A e \in Events :
           (e.stage = "lst" /\ e.op = "r.mapcalc") =>
               /\ ({loc.tmp_avg_lse, loc.tmp_delta_lse} \subseteq e.reads)
                      = Present(opt, "landcover")
               /\ ({loc.tmp_avg_lse, loc.tmp_delta_lse} \cap e.reads = {})
                      = Present(opt, "emissivity_class")

\* A run in map mode has passed the emissivity stage and estimated the LST
\* from the emissivity maps.
C3_Witness ==
    /\ pc = "post"
    /\ Present(opt, "landcover")
    /\ \E e \in Events :
           /\ e.stage = "lst" /\ e.op = "r.mapcalc" /\ e.ok
           /\ loc.tmp_avg_lse \in e.reads

LookUps == {e \in Events : e.stage = "emissivity" /\ e.op = "r.mapcalc"}

LstEstimates == {e \in Events : e.stage = "lst" /\ e.op = "r.mapcalc"}

PairGiven ==
    Present(opt, "average_emissivity") /\ Present(opt, "delta_emissivity")

GivenPair == {opt.average_emissivity, opt.delta_emissivity}

\* C4 as claimed: when the average and delta emissivity maps are both given,
\* no look-up is executed and the LST expression reads the given pair, in
\* class mode as in map mode.
C4_GivenPairOverridesBothModes ==
    PairGiven => /\ LookUps = {}
                 /\ \A e \in LstEstimates : GivenPair \subseteq e.reads

\* C4 as amended: when both maps are given no look-up is executed; in map
\* mode the LST expression reads the given pair, in class mode it reads
\* neither map of the pair.
C4_GivenPairOverridesMapMode ==
    PairGiven =>
        /\ LookUps = {}
        /\ \A e \in LstEstimates :
               IF Present(opt, "landcover")
               THEN GivenPair \subseteq e.reads
               ELSE GivenPair \cap e.reads = {}

\* A map-mode run with the pair given has estimated the LST.
C4_Witness ==
    /\ PairGiven
    /\ Present(opt, "landcover")
    /\ \E e \in LstEstimates : e.ok /\ GivenPair \subseteq e.reads

\* C5: in class mode, once the resolver has reported landcover_class as
\* False, the run executes no CWV and no LST operation, creates no output
\* raster and ends with a configuration error.
C5_UnknownClassFails ==
    (Present(opt, "emissivity_class") /\ loc.landcover_class = False) =>
        /\ \A e \in Events : e.stage \notin {"cwv", "lst"}
        /\ rasters \cap {opt.lst, opt.cwv} = {}
        /\ pc = "done" => err = "ConfigurationError"

\* C6: with a window size outside {3, 5, 7} no masking, calibration,
\* emissivity, CWV or LST operation is ever executed, and the run ends with a
\* configuration error.
C6_BadWindowRejectedFirst ==
    (opt.window \notin WindowSizes) =>
        /\ \A e \in Events : e.stage \notin PipelineStages
        /\ pc = "done" => err \in {"ParserError", "ConfigurationError"}

\* C7: when the metadata fails to load, no mask has been computed or applied
\* and no raster expression has been evaluated before the load.
C7_MetadataErrorBeforeRasterWork ==
    \A n \in 1 .. Len(trace) :
        (trace[n].op = "Landsat8_MTL" /\ ~trace[n].ok) =>
            \A m \in 1 .. n - 1 : trace[m].op \notin RasterWork

\* The place of a stage in the forward order of the pipeline.
StageRank(stage) ==
    CASE stage = "region" -> 0
      [] stage = "mask" -> 1
      [] stage = "calibrate" -> 2
      [] stage = "emissivity" -> 3
      [] stage = "cwv" -> 4
      [] stage = "lst" -> 5
      [] stage = "post" -> 6
      [] OTHER -> 7

IsRaster(name) == name \notin {NoName, Unbound} /\ Exists(name)

\* The emissivity terms of the active mode have been produced.
EmissivityTermsProduced ==
    IF Present(opt, "landcover")
    THEN IsRaster(loc.tmp_avg_lse) /\ IsRaster(loc.tmp_delta_lse)
    ELSE loc.landcover_class \in LandCoverClasses

\* C8: when the emissivity stage or the CWV stage is about to start both
\* brightness temperatures name existing rasters; when the LST stage is about
\* to start the emissivity terms of the active mode and the CWV raster have
\* been produced; the executed operations follow the forward order of the
\* stages.
C8_StagesRunForward ==
    /\ pc \in {"emissivity", "cwv"} => IsRaster(loc.t10) /\ IsRaster(loc.t11)
    /\ pc = "lst" => EmissivityTermsProduced /\ IsRaster(loc.tmp_cwv)
    /\ \A m \in 1 .. Len(trace) : \A n \in m .. Len(trace) :
           StageRank(trace[m].stage) <= StageRank(trace[n].stage)

\* The operations of the trace that have written a raster.
Writes == {n \in 1 .. Len(trace) : trace[n].out # NoName /\ trace[n].ok}

\* C9: no raster is written twice in a run: the calibrations of channels 10
\* and 11 write distinct radiance and brightness-temperature rasters, and no
\* operation writes a raster an earlier operation wrote.
C9_IntermediatesWrittenOnce ==
    \A m \in Writes : \A n \in Writes :
        trace[m].out = trace[n].out => m = n

\* The final LST raster exists and its tracked pixel is no-data.
LstDone == pc \in {"exit", "done"} /\ opt.lst \in rasters

LstIsNoData == opt.lst \in nodata

\* The rasters the command line supplies as input terms: the brightness
\* temperatures Ti and Tj, average emissivity, delta emissivity, land cover.
SuppliedTerms ==
    {opt.t10, opt.t11, opt.average_emissivity, opt.delta_emissivity,
     opt.landcover} \ {NoName}

TermsInEffect ==
    ({loc.t10, loc.t11} \cap ({opt.t10, opt.t11} \ {NoName}))
    \cup (IF Present(opt, "landcover")
          THEN ({opt.average_emissivity, opt.delta_emissivity} \ {NoName})
               \cup (IF PairGiven THEN {} ELSE {opt.landcover})
          ELSE {})

ClassesUsed ==
    {used.reported, used.values, used.expression} \ {"<unbound>"}

IntermediatesWritten ==
    {trace[n].out : n \in Writes} \ {opt.lst, opt.cwv}

\* C13: when a run has ended, by completion or by an error in any stage, and
\* the exit handler has run, none of the intermediate rasters the run wrote
\* exists.
C13_IntermediatesDiscarded ==
    pc = "done" => IntermediatesWritten \cap rasters = {}

\* A run that was aborted after it had written intermediate rasters has ended.
C13_Witness ==
    /\ pc = "done"
    /\ err \notin {"none", "ParserError"}
    /\ Cardinality(IntermediatesWritten) >= 3

\* C14: in a run whose input rasters differ in extent or resolution no raster
\* is computed, masked, copied or renamed.
C14_ExtentEnforced ==
    ~env.aligned => \A e \in Events : e.op \notin RasterWork

\* The positions of the trace at which a MASK was installed.
MaskInstalls ==
    {n \in 1 .. Len(trace) : trace[n].op = "r.mask" /\ trace[n].ok}

\* The QA band of the command line: named with qab or derived from the prefix.
QaBand == IF Given(opt.prefix) THEN opt.prefix \o <<"Q", "A">> ELSE opt.qab

\* C15: every operation of the calibration or of a later stage comes after
\* the installation of the mask; the mask is built from the clouds raster
\* when one is given and otherwise from the QA band, never from both; and no
\* mask expression reads a source the command line does not name.
C15_MaskFirstFromOneSource ==
    /\ \A n \in 1 .. Len(trace) :
           trace[n].stage \in {"calibrate", "emissivity", "cwv", "lst"} =>
               \E m \in MaskInstalls : m < n
    /\ Cardinality(MaskInstalls) <= 1
    /\ \A e \in Events :
           e.stage = "mask" =>
               /\ NoName \notin e.reads
               /\ e.op = "r.mapcalc" =>
                      ~Given(opt.clouds) /\ e.reads = {QaBand}
               /\ e.op = "r.mask" =>
                      e.reads = IF Given(opt.clouds) THEN {opt.clouds}
                                ELSE {tmp_cloudmask}

\* A name main() makes from its temporary prefix.
TemporaryName(name) == Len(name) >= 1 /\ name[1] = "tmp."

\* The rasters of the run under a name the user sees.
UserVisible == {r \in rasters : ~TemporaryName(r)}

CwvCopies == {e \in Events : e.op = "g.copy"}

CwvComputed ==
    \E e \in Events : e.stage = "cwv" /\ e.op = "r.mapcalc" /\ e.ok

Calibrated ==
    {e.out : e \in {x \in Events : x.stage = "calibrate" /\ x.ok}} \ {NoName}

\* C17: whenever the CWV stage is reached, t10 and t11 are each bound to the
\* non-empty name of a raster that the caller supplied as a brightness
\* temperature or that the calibrator produced earlier in the run.
C17_TemperaturesBoundAtCwv ==
    pc = "cwv" =>
        /\ loc.t10 \notin {Unbound, NoName}
        /\ loc.t11 \notin {Unbound, NoName}
        /\ loc.t10 \in {opt.t10} \cup Calibrated
        /\ loc.t11 \in {opt.t11} \cup Calibrated

\* C18: when a run has ended, however it ended, the session has no MASK and
\* has its original region.
C18_MaskRemovedRegionRestored ==
    pc = "done" => mask = NoMask /\ region = "original"

\* The positions of the trace at which the LST output got its name.
Renames == {n \in 1 .. Len(trace) : trace[n].out = opt.lst}

\* The LST output is named by the rename alone, after the removal of the mask
\* and the metadata, as the last operation on rasters of a run without error.
LstNamedLast ==
    \A n \in Renames :
        /\ trace[n].op = "g.rename" /\ trace[n].reads = {loc.tmp_lst}
        /\ err = "none"
        /\ \E m \in 1 .. n - 1 : trace[m].op = "r.mask -r"
        /\ \E m \in 1 .. n - 1 : trace[m].op = "r.support"
                                    /\ trace[m].stage = "post"
        /\ \A m \in n + 1 .. Len(trace) : trace[m].op \notin RasterWork

\* C19 as claimed: the LST output is named last, and a run that ends without
\* that rename has created no raster under a user-given name, lst or cwv.
C19_OutputsOnlyOnCompletion ==
    /\ LstNamedLast
    /\ (pc = "done" /\ Renames = {}) => UserVisible = {}

\* C19 as amended: the LST output is named last, and a run that ends without
\* that rename has created no raster under the lst name; it has created the
\* cwv output exactly when the option is given and its CWV stage succeeded.
C19_LstOnlyOnCompletion ==
    /\ LstNamedLast
    /\ (pc = "done" /\ Renames = {}) =>
           /\ opt.lst \notin rasters
           /\ UserVisible \subseteq {opt.cwv}
           /\ (opt.cwv \in rasters) = (Given(opt.cwv) /\ CwvComputed)

\* A run with the cwv option has failed in the LST stage and ended: the cwv
\* output exists, the lst output does not.
C19_Witness ==
    /\ pc = "done" /\ err = "MapcalcError"
    /\ \E e \in Events : e.stage = "lst" /\ ~e.ok
    /\ UserVisible = {opt.cwv}

====
